---- MODULE Spec2Model ----
(***************************************************************************)
(* Model of csbot's lisp plugin lexer (csbot/plugins/lisp.py): the         *)
(* character automaton LexCharDict, the lexeme cache LexemeDict, the line  *)
(* splitting generator of ProgramDict and the lex() entry point.           *)
(*                                                                         *)
(* A character is a one-character string, a lexeme or a line is a sequence *)
(* of characters.  TokenType members are modelled by their names, the      *)
(* str-typed internal markers by their literal text, None by "None".       *)
(***************************************************************************)
EXTENDS Integers, Sequences, FiniteSets, TLC

\* ------------------------------------------------------------------ bounds
MaxLen == 4
MaxCalls == 2

\* ------------------------------------------------------------ characters
DQ == "\""
BS == "\\"
AP == "'"

\* string.whitespace == ' \t\n\r\x0b\x0c' ("VT" and "FF" stand for \x0b, \x0c)
whitespace == {" ", "\t", "\n", "\r", "VT", "FF"}

SYMBOLS == {"(", ")", "[", "]"}

Digits == {"0", "1", "2", "3", "4", "5", "6", "7", "8", "9"}

\* ------------------------------------------------------------ token types
None == "None"
UNKNOWN == "UNKNOWN"
NAME == "NAME"
SYMBOL == "SYMBOL"
TSTRING == "TSTRING"
L_PAREN == "L_PAREN"
R_PAREN == "R_PAREN"
L_BRACKET == "L_BRACKET"
R_BRACKET == "R_BRACKET"
NUMBER == "NUMBER"
REAL == "REAL"
IMAGINARY == "IMAGINARY"

TokenType == {UNKNOWN, NAME, SYMBOL, TSTRING, L_PAREN, R_PAREN, L_BRACKET,
              R_BRACKET, NUMBER, REAL, IMAGINARY}

unmatched_string == "unmatched_string"
unfinished_symbol == "unfinished_symbol"
decimal_point == "."

\* the values of _tok whose Python type is str
PyStr == {unmatched_string, unfinished_symbol, decimal_point}

SYMBOL_LUT == [c \in SYMBOLS |->
                 CASE c = "(" -> L_PAREN
                   [] c = ")" -> R_PAREN
                   [] c = "[" -> L_BRACKET
                   [] c = "]" -> R_BRACKET]

Token(tt, word) == [token_type |-> tt, lexeme |-> word]

\* ------------------------------------------------------------- LexCharDict
\* A node is [_char, _tok]; the tree is a function from the character path
\* that leads to a node (<<>> for the root) to the node.
LexCharDict(char, tok) == [_char |-> char, _tok |-> tok]

\* int(k) succeeds
IsInt(k) == k \in Digits

\* variant: 'i' makes IMAGINARY after NUMBER only, and NAME after REAL
MissingTok_noRealImag(ptok, k) ==
  IF k = DQ
    THEN IF ptok = None THEN unmatched_string
         ELSE IF ptok = unmatched_string THEN TSTRING
         ELSE ptok
  ELSE IF k = BS /\ ptok = unmatched_string
    THEN ptok
  ELSE IF k = AP
    THEN IF ptok = None THEN unfinished_symbol ELSE ptok
  ELSE IF ptok = unfinished_symbol
    THEN SYMBOL
  ELSE IF ptok \in {None, decimal_point, REAL, NUMBER}
    THEN IF IsInt(k)
           THEN IF ptok = None THEN NUMBER
                ELSE IF ptok = decimal_point THEN REAL
                ELSE ptok
         ELSE IF k = "i" /\ ptok = NUMBER THEN IMAGINARY
         ELSE IF ptok = NUMBER
           THEN IF k = "." THEN decimal_point ELSE NAME
         ELSE NAME
  ELSE IF ptok = IMAGINARY
    THEN NAME
  ELSE ptok

\* _tok of the node d that __missing__(k) builds under a node marked ptok
MissingTok(ptok, k) ==
  IF k = DQ
    THEN IF ptok = None THEN unmatched_string
         ELSE IF ptok = unmatched_string THEN TSTRING
         ELSE ptok
  ELSE IF k = BS /\ ptok = unmatched_string
    THEN ptok
  ELSE IF k = AP
    THEN IF ptok = None THEN unfinished_symbol ELSE ptok
  ELSE IF ptok = unfinished_symbol
    THEN SYMBOL
  ELSE IF ptok \in {None, decimal_point, REAL, NUMBER}
    THEN IF IsInt(k)
           THEN IF ptok = None THEN NUMBER
                ELSE IF ptok = decimal_point THEN REAL
                ELSE ptok
         ELSE IF k = "i" /\ ptok \in {NUMBER, REAL} THEN IMAGINARY
         ELSE IF ptok = NUMBER
           THEN IF k = "." THEN decimal_point ELSE NAME
         ELSE NAME
  ELSE IF ptok = IMAGINARY
    THEN NAME
  ELSE ptok

\* _char of that node: '' for the quotes that open or close a string, for the
\* escape introducer and for the apostrophe that opens a symbol
MissingChar(ptok, k) ==
  IF k = DQ /\ ptok \in {None, unmatched_string} THEN <<>>
  ELSE IF k = BS /\ ptok = unmatched_string THEN <<>>
  ELSE IF k = AP /\ ptok = None THEN <<>>
  ELSE <<k>>

\* variant: the escapes n and t keep their letter as display character
EscapeChildren_raw(p) ==
  (Append(p, DQ) :> LexCharDict(<<DQ>>, unmatched_string))
  @@ (Append(p, "n") :> LexCharDict(<<"n">>, MissingTok(unmatched_string, "n")))
  @@ (Append(p, "t") :> LexCharDict(<<"t">>, MissingTok(unmatched_string, "t")))
  @@ (Append(p, BS) :> LexCharDict(<<BS>>, unmatched_string))

\* the children that __missing__ adds under a new escape node at path p
EscapeChildren(p) ==
  (Append(p, DQ) :> LexCharDict(<<DQ>>, unmatched_string))
  @@ (Append(p, "n") :> LexCharDict(<<"\n">>, MissingTok(unmatched_string, "n")))
  @@ (Append(p, "t") :> LexCharDict(<<"\t">>, MissingTok(unmatched_string, "t")))
  @@ (Append(p, BS) :> LexCharDict(<<BS>>, unmatched_string))

\* LexCharDict.__missing__ on the node at path p of tree m for character k
Missing(m, p, k) ==
  LET ptok == m[p]._tok
      q == Append(p, k)
      d == LexCharDict(MissingChar(ptok, k), MissingTok(ptok, k))
  IN  IF k = BS /\ ptok = unmatched_string
        THEN (q :> d) @@ EscapeChildren(q) @@ m
        ELSE (q :> d) @@ m

\* variant: the child is built and stored on every access
Advance_always(m, p, k) == Missing(m, p, k)

\* match[letter]: the child is created only when it is missing
Advance(m, p, k) ==
  IF Append(p, k) \in DOMAIN m THEN m ELSE Missing(m, p, k)

\* build_lexchar_dict(**SYMBOL_LUT): the root and the four seeded delimiters
build_lexchar_dict ==
  LET root == (<< >> :> LexCharDict(None, None))
      seeded == [p \in {<<c>> : c \in SYMBOLS} |->
                   [Advance(root, << >>, p[1])[p] EXCEPT !._tok = SYMBOL_LUT[p[1]]]]
  IN  seeded @@ root

\* -------------------------------------------------------------- LexemeDict
\* the loop of LexemeDict.__missing__: walk lex from the root, creating the
\* missing nodes and accumulating the display characters
RECURSIVE WalkFrom(_, _, _, _)
WalkFrom(m, p, rest, word) ==
  IF rest = << >>
    THEN [matches |-> m, word |-> word, _tok |-> m[p]._tok]
    ELSE LET m2 == Advance(m, p, Head(rest))
             q == Append(p, Head(rest))
         IN  WalkFrom(m2, q, Tail(rest), word \o m2[q]._char)

\* variant: the decimal-point marker passes the check
check_type_noDot(tok) == tok \in {unmatched_string, unfinished_symbol}

\* check_type raises ValueError
check_type(tok) == tok \in PyStr

\* variant: the token is stored before its type is checked
LexemeLookup_storeFirst(m, c, lex) ==
  IF lex \in DOMAIN c
    THEN [matches |-> m, cache |-> c, raised |-> FALSE, tok |-> c[lex],
          _tok |-> c[lex].token_type, hit |-> TRUE]
    ELSE LET w == WalkFrom(m, << >>, lex, << >>)
         IN  [matches |-> w.matches,
              cache |-> (lex :> Token(w._tok, w.word)) @@ c,
              raised |-> check_type(w._tok),
              tok |-> Token(w._tok, w.word), _tok |-> w._tok, hit |-> FALSE]

\* variant: the cache keeps the raw lexeme as the token's text
LexemeLookup_storesRaw(m, c, lex) ==
  IF lex \in DOMAIN c
    THEN [matches |-> m, cache |-> c, raised |-> FALSE, tok |-> c[lex],
          _tok |-> c[lex].token_type, hit |-> TRUE]
    ELSE LET w == WalkFrom(m, << >>, lex, << >>)
         IN  IF check_type(w._tok)
               THEN [matches |-> w.matches, cache |-> c, raised |-> TRUE,
                     tok |-> Token(w._tok, w.word), _tok |-> w._tok, hit |-> FALSE]
               ELSE [matches |-> w.matches,
                     cache |-> (lex :> Token(w._tok, lex)) @@ c,
                     raised |-> FALSE,
                     tok |-> Token(w._tok, w.word), _tok |-> w._tok, hit |-> FALSE]

\* lex_dict[lex]: a cache hit returns the stored token; a miss walks the
\* automaton, raises on a str marker and otherwise stores the token
LexemeLookup(m, c, lex) ==
  IF lex \in DOMAIN c
    THEN [matches |-> m, cache |-> c, raised |-> FALSE, tok |-> c[lex],
          _tok |-> c[lex].token_type, hit |-> TRUE]
    ELSE LET w == WalkFrom(m, << >>, lex, << >>)
         IN  IF check_type(w._tok)
               THEN [matches |-> w.matches, cache |-> c, raised |-> TRUE,
                     tok |-> Token(w._tok, w.word), _tok |-> w._tok, hit |-> FALSE]
               ELSE [matches |-> w.matches,
                     cache |-> (lex :> Token(w._tok, w.word)) @@ c,
                     raised |-> FALSE,
                     tok |-> Token(w._tok, w.word), _tok |-> w._tok, hit |-> FALSE]

\* ------------------------------------------------------------- ProgramDict
\* The generator _gen() of ProgramDict.__missing__.  Its frame is
\* [pc, i, word, string, escape]: i is the index of the current letter of s,
\* pc the place where it is suspended: "start" (not yet run), "y188" and
\* "y190" (the two yields inside the loop), "y195" (the final yield) or
\* "closed" (returned or raised).
NewGen == [pc |-> "start", i |-> 1, word |-> << >>, string |-> FALSE,
           escape |-> FALSE]

Closed(g) == [g EXCEPT !.pc = "closed"]

\* run the for loop from its top at letter i up to the next yield or the end:
\* the result is the frame at that point, pc naming the yield reached
RECURSIVE Scan(_, _)
Scan(s, g) ==
  IF g.i > Len(s)
    THEN IF g.word # << >> THEN [g EXCEPT !.pc = "y195"] ELSE Closed(g)
    ELSE LET letter == s[g.i]
         IN  IF letter = DQ
               THEN Scan(s, [g EXCEPT !.string = IF ~g.escape THEN ~g.string ELSE g.string,
                                      !.word = Append(g.word, letter),
                                      !.i = g.i + 1])
             ELSE IF g.string
               THEN Scan(s, [g EXCEPT !.word = Append(g.word, letter),
                                      !.escape = (letter = BS),
                                      !.i = g.i + 1])
             ELSE IF letter \in whitespace \/ letter \in SYMBOLS
               THEN IF g.word # << >> THEN [g EXCEPT !.pc = "y188"]
                    ELSE IF letter \in SYMBOLS THEN [g EXCEPT !.pc = "y190"]
                    ELSE Scan(s, [g EXCEPT !.word = << >>, !.i = g.i + 1])
             ELSE Scan(s, [g EXCEPT !.word = Append(g.word, letter), !.i = g.i + 1])

\* resume a suspended generator: finish the statement it was suspended in and
\* run on to the next yield
Resume(s, g) ==
  CASE g.pc = "start" -> Scan(s, g)
    [] g.pc = "y188" -> IF s[g.i] \in SYMBOLS THEN [g EXCEPT !.pc = "y190"]
                        ELSE Scan(s, [g EXCEPT !.word = << >>, !.i = g.i + 1])
    [] g.pc = "y190" -> Scan(s, [g EXCEPT !.word = << >>, !.i = g.i + 1])
    [] g.pc = "y195" -> Closed(g)
    [] g.pc = "closed" -> g

\* the lexeme whose token the yield at g.pc produces
YieldLexeme(s, g) == IF g.pc = "y190" THEN <<s[g.i]>> ELSE g.word

\* ------------------------------------------------------------------ inputs
\* ("[" and "]" occur in the longer lines below)
Alphabet == {DQ, BS, AP, "(", ")", " ", "1", ".", "i", "n"}

RECURSIVE StringsUpTo(_)
StringsUpTo(n) ==
  IF n = 0 THEN {<< >>}
  ELSE LET prev == StringsUpTo(n - 1)
       IN  prev \cup {Append(w, c) : w \in {v \in prev : Len(v) = n - 1}, c \in Alphabet}

\* longer lines: the specification's examples and strings with escapes
ExampleLines ==
  { <<DQ, BS, BS, DQ, " ", "n">>,
    <<DQ, BS, DQ, DQ, " ", "n">>,
    <<DQ, BS, BS, DQ, "(">>,
    <<DQ, "n", " ", "(", DQ, " ", "[", "n", "]">>,
    <<"[", "]">>,
    <<"[", "n", "]", "[">>,
    <<"1", "i", AP, " ", "1", "i", "n">>,
    <<DQ, "n", DQ, " ", DQ, "n", DQ>>,
    <<AP, "n", " ", "1", ".", " ", AP, "n">>,
 <<"(", "+", " ", "1", " ", "2", ")">>,
    <<AP, "f", "o", "o">>,
    <<DQ, "h", "e", "l", "l", "o", DQ>>,
    <<"3", ".", "1", "4">>,
    <<"3", ".", "1", "4", "i">>,
    <<"3", ".", "1", "4", "x">>,
    <<DQ, "u", "n", "t", "e", "r", "m", DQ>>,
    <<DQ, "u", "n", "t", "e", "r", "m">>,
    <<DQ, "a", BS, "t", BS, "n", BS, BS, BS, DQ, "b", DQ>> }

Lines == StringsUpTo(MaxLen) \cup ExampleLines

\* ------------------------------------------------------------------- state
VARIABLES
  input,        \* the line s this session tokenizes
  matches,      \* the LexCharDict tree
  lexeme_dict,  \* LexemeDict: lexeme -> Token
  program_dict, \* ProgramDict: line -> frame of its generator
  calls,        \* number of lex(program_dict, s) calls made
  received,     \* the tokens the consumer got from the generator
  outcome,      \* how the consumer's last next() ended
  emitted,      \* the lexemes handed to lex_dict so far
  last,         \* the last lex_dict[...] lookup: lexeme, final marker, result
  got,          \* what the sequence returned by the latest lex() call gave
  pending       \* the lines the session tokenizes after this one

lexvars == <<input, matches, lexeme_dict, program_dict, calls,
             received, outcome, emitted, last, got, pending>>

NoLookup == [lex |-> << >>, _tok |-> None, word |-> << >>, raised |-> FALSE,
             hit |-> FALSE]

\* the consumer's view of a sequence that lex() has just returned
NothingYet == [toks |-> << >>, ended |-> "no"]

\* two threads that classify on one shared automaton (SpecConc)
VARIABLES
  heap,         \* the LexCharDict objects ever built: identity -> [_char, _tok]
  kids,         \* the dict entries: <<node, character>> -> child node
  made,         \* which __missing__ call built a node: node -> <<parent, character>>
  thr,          \* per thread: its frame in LexemeDict.__missing__
  ccache        \* the shared LexemeDict of the two threads

concvars == <<heap, kids, made, thr, ccache>>

ConcIdle ==
  /\ heap = << >>
  /\ kids = << >>
  /\ made = << >>
  /\ thr = << >>
  /\ ccache = << >>

\* the cron plugin (SpecCron)
VARIABLES
  tasks,        \* Cron.tasks: plugin -> name -> task handle
  delayed,      \* the DelayedCalls made by reactor.callLater
  loops,        \* the LoopingCalls made by scheduleEvery
  posted,       \* the number of cron.<name> events posted, per name
  since,        \* the hour setup_regular(name, ...) ran at, per name
  escaped,      \* an exception has left a runner built by _runcb
  now,          \* the reactor's clock, in hours since a Monday 00:00
  lastop,       \* the last step of the plugin and how it ended
  unsched,      \* the handles unschedule() was called for by a plugin
  ops           \* the number of calls plugins have made

cronvars == <<tasks, delayed, loops, posted, since, escaped, now, lastop,
              unsched, ops>>

\* a task handle: the kind of the Twisted object and its number among them
Handle(kind, n) == [kind |-> kind, n |-> n]

NoTask == Handle(None, 0)

NoOp == [op |-> "none", plugin |-> None, name |-> None, body |-> None,
         result |-> None, task |-> NoTask]

CronIdle ==
  /\ tasks = << >>
  /\ delayed = << >>
  /\ loops = << >>
  /\ posted = << >>
  /\ since = << >>
  /\ escaped = FALSE
  /\ now = 0
  /\ lastop = NoOp
  /\ unsched = {}
  /\ ops = 0

\* the lexer before its session has a line
LexIdle ==
  /\ input = << >>
  /\ matches = build_lexchar_dict
  /\ lexeme_dict = << >>
  /\ program_dict = << >>
  /\ calls = 0
  /\ received = << >>
  /\ outcome = "none"
  /\ emitted = << >>
  /\ last = NoLookup
  /\ got = NothingYet
  /\ pending = << >>

\* Lisp._build_program_dict(): a fresh automaton, lexeme cache and line cache
Init ==
  /\ input \in Lines
  /\ matches = build_lexchar_dict
  /\ lexeme_dict = << >>
  /\ program_dict = << >>
  /\ calls = 0
  /\ received = << >>
  /\ outcome = "none"
  /\ emitted = << >>
  /\ last = NoLookup
  /\ got = NothingYet
  /\ pending = << >>
  /\ ConcIdle /\ CronIdle

\* lex(program_dict, s): program_dict[s], which builds the generator on a
\* miss and returns the stored one otherwise; no code of _gen runs here
Lex ==
  /\ calls < MaxCalls
  /\ calls' = calls + 1
  /\ program_dict' = IF input \in DOMAIN program_dict THEN program_dict
                     ELSE (input :> NewGen) @@ program_dict
  /\ got' = NothingYet
  /\ UNCHANGED <<input, matches, lexeme_dict, received, outcome, emitted, last,
                 pending>>
  /\ UNCHANGED <<concvars, cronvars>>

\* next() on the generator returned by lex: run _gen to its next yield
GenNext ==
  /\ input \in DOMAIN program_dict
  /\ LET g == Resume(input, program_dict[input])
     IN  IF g.pc = "closed"
           THEN /\ program_dict' = [program_dict EXCEPT ![input] = g]
                /\ outcome' = "StopIteration"
                /\ got' = IF got.ended = "no"
                            THEN [got EXCEPT !.ended = "StopIteration"] ELSE got
                /\ UNCHANGED <<matches, lexeme_dict, received, emitted, last>>
           ELSE LET lx == YieldLexeme(input, g)
                    r == LexemeLookup(matches, lexeme_dict, lx)
                IN  /\ matches' = r.matches
                    /\ lexeme_dict' = r.cache
                    /\ emitted' = Append(emitted, lx)
                    /\ last' = [lex |-> lx, _tok |-> r._tok, word |-> r.tok.lexeme,
                                raised |-> r.raised, hit |-> r.hit]
                    /\ IF r.raised
                         THEN /\ program_dict' = [program_dict EXCEPT ![input] = Closed(g)]
                              /\ outcome' = "ValueError"
                              /\ received' = received
                              /\ got' = [got EXCEPT !.ended = "ValueError"]
                         ELSE /\ program_dict' = [program_dict EXCEPT ![input] = g]
                              /\ outcome' = "token"
                              /\ received' = Append(received, r.tok)
                              /\ got' = [got EXCEPT !.toks = Append(@, r.tok)]
  /\ UNCHANGED <<input, calls, pending>>
  /\ UNCHANGED <<concvars, cronvars>>

vars == <<lexvars, concvars, cronvars>>

Next == Lex \/ GenNext

Spec == Init /\ [][Next]_vars

\* ------------------------------------------- two lines on one program_dict
\* A session that tokenizes two lines with the same ProgramDict, LexemeDict
\* and automaton: lex(program_dict, s1), then lex(program_dict, s2).
MaxHist == 2

HistAlphabet == {DQ, BS, AP, " ", "1", "."}

RECURSIVE StringsOver(_, _)
StringsOver(A, n) ==
  IF n = 0 THEN {<< >>}
  ELSE LET prev == StringsOver(A, n - 1)
       IN  prev \cup {Append(w, c) : w \in {v \in prev : Len(v) = n - 1}, c \in A}

HistLines == StringsOver(HistAlphabet, MaxHist)

HistInit ==
  /\ input \in HistLines
  /\ pending \in {<<s>> : s \in HistLines}
  /\ matches = build_lexchar_dict
  /\ lexeme_dict = << >>
  /\ program_dict = << >>
  /\ calls = 0
  /\ received = << >>
  /\ outcome = "none"
  /\ emitted = << >>
  /\ last = NoLookup
  /\ got = NothingYet
  /\ ConcIdle /\ CronIdle

\* the caller, having consumed the sequence of the current line to its end
\* or to its error, turns to the next line
NextLine ==
  /\ pending # << >>
  /\ got.ended # "no"
  /\ input' = Head(pending)
  /\ pending' = Tail(pending)
  /\ UNCHANGED <<matches, lexeme_dict, program_dict, calls, received, outcome,
                 emitted, last, got>>
  /\ UNCHANGED <<concvars, cronvars>>

HistNext == Lex \/ GenNext \/ NextLine

SpecHist == HistInit /\ [][HistNext]_vars

\* ------------------------------------------------- two threads, one tree
\* Two threads run LexemeDict.__missing__ on one LexemeDict and so on one
\* LexCharDict tree.  Nodes are objects: heap holds them by identity and kids
\* holds the dict entries, so two objects built for the same (parent,
\* character) are two nodes.  The interpreter may switch threads between any
\* two bytecodes of the Python-level __missing__; the dict operations
\* themselves (the failed lookup, self[k] = d) are atomic.
MaxConcLen == 2

Threads == {1, 2}

ConcLexemes == StringsOver({DQ, BS, "1", "."}, MaxConcLen) \ {<< >>}

IdleFrame == [lex |-> << >>, i |-> 1, match |-> 0, word |-> << >>,
              pc |-> "idle", d |-> 0]

\* build_lexchar_dict as objects: node 1 is the root, nodes 2..5 the seeded
\* delimiters
SeedOrder == <<"(", ")", "[", "]">>

ConcInit ==
  /\ heap = <<build_lexchar_dict[<< >>]>>
            \o [n \in 1..Len(SeedOrder) |-> build_lexchar_dict[<<SeedOrder[n]>>]]
  /\ kids = [e \in {<<1, SeedOrder[n]>> : n \in 1..Len(SeedOrder)} |->
               1 + CHOOSE n \in 1..Len(SeedOrder) : SeedOrder[n] = e[2]]
  /\ made = << >>
  /\ thr = [t \in Threads |-> IdleFrame]
  /\ ccache = << >>
  /\ LexIdle /\ CronIdle

\* a thread asks the shared LexemeDict for a lexeme: a hit returns at once,
\* a miss enters LexemeDict.__missing__
CStart(t) ==
  /\ thr[t].pc = "idle"
  /\ \E lex \in ConcLexemes :
       thr' = [thr EXCEPT ![t] =
                 [IdleFrame EXCEPT !.lex = lex, !.match = 1,
                    !.pc = IF lex \in DOMAIN ccache THEN "hit" ELSE "walk"]]
  /\ UNCHANGED <<heap, kids, made, ccache>>
  /\ UNCHANGED <<lexvars, cronvars>>

\* the objects one call of LexCharDict.__missing__ builds before it stores
\* d: d itself and, for an escape node, its four children
NewNodes(ptok, k) ==
  LET d == LexCharDict(MissingChar(ptok, k), MissingTok(ptok, k))
      q == <<k>>
      esc == EscapeChildren(q)
  IN  IF k = BS /\ ptok = unmatched_string
        THEN <<d, esc[Append(q, DQ)], esc[Append(q, "n")], esc[Append(q, "t")],
               esc[Append(q, BS)]>>
        ELSE <<d>>

EscapeOrder == <<DQ, "n", "t", BS>>

\* match = match[letter]: the child when the entry exists, else the first
\* half of LexCharDict.__missing__, which builds d and has not stored it yet
CStep(t) ==
  LET f == thr[t]
      k == f.lex[f.i]
      n == Len(heap) + 1
      new == NewNodes(heap[f.match]._tok, k)
  IN  /\ f.pc = "walk"
      /\ f.i <= Len(f.lex)
      /\ IF <<f.match, k>> \in DOMAIN kids
           THEN /\ thr' = [thr EXCEPT ![t] =
                             [f EXCEPT !.match = kids[<<f.match, k>>],
                                       !.word = f.word \o heap[kids[<<f.match, k>>]]._char,
                                       !.i = f.i + 1]]
                /\ UNCHANGED <<heap, kids, made>>
           ELSE /\ heap' = heap \o new
                /\ kids' = IF Len(new) > 1
                             THEN [e \in {<<n, EscapeOrder[j]>> : j \in 1..4} |->
                                     n + CHOOSE j \in 1..4 : EscapeOrder[j] = e[2]]
                                  @@ kids
                             ELSE kids
                /\ made' = (n :> <<f.match, k>>) @@ made
                /\ thr' = [thr EXCEPT ![t] = [f EXCEPT !.pc = "store", !.d = n]]
      /\ UNCHANGED ccache
      /\ UNCHANGED <<lexvars, cronvars>>

\* self[k] = d; return d: the entry is written whatever it held, and the
\* caller continues from d
CStore(t) ==
  LET f == thr[t]
      e == <<f.match, f.lex[f.i]>>
  IN  /\ f.pc = "store"
      /\ kids' = (e :> f.d) @@ kids
      /\ thr' = [thr EXCEPT ![t] =
                   [f EXCEPT !.match = f.d, !.word = f.word \o heap[f.d]._char,
                             !.i = f.i + 1, !.pc = "walk", !.d = 0]]
      /\ UNCHANGED <<heap, made, ccache>>
      /\ UNCHANGED <<lexvars, cronvars>>

\* the end of LexemeDict.__missing__: check_type, then the Token is stored
CFinish(t) ==
  LET f == thr[t]
  IN  /\ f.pc = "walk"
      /\ f.i > Len(f.lex)
      /\ IF check_type(heap[f.match]._tok)
           THEN /\ thr' = [thr EXCEPT ![t] = [f EXCEPT !.pc = "ValueError"]]
                /\ UNCHANGED ccache
           ELSE /\ thr' = [thr EXCEPT ![t] = [f EXCEPT !.pc = "token"]]
                /\ ccache' = (f.lex :> Token(heap[f.match]._tok, f.word)) @@ ccache
      /\ UNCHANGED <<heap, kids, made>>
      /\ UNCHANGED <<lexvars, cronvars>>

ConcNext == \E t \in Threads : CStart(t) \/ CStep(t) \/ CStore(t) \/ CFinish(t)

SpecConc == ConcInit /\ [][ConcNext]_vars

\* ------------------------------------------------------------------- cron
\* Time is counted in whole hours since a Monday 00:00.  A plugin state c is
\* the record [tasks, delayed, loops, posted, since, escaped]; the methods
\* of Cron are operators from c to the state they leave, with what they
\* return or raise.  The reactor is Twisted's: callLater(delay, f) makes a
\* pending DelayedCall, whose cancel() raises AlreadyCalled once it has been
\* called (called is set before f runs) and AlreadyCancelled once cancelled;
\* LoopingCall(f).start(interval) runs f at once and then every interval,
\* and a LoopingCall has stop() but no cancel().
MaxTime == 1
MaxOps == 2

HoursPerDay == 24
HoursPerWeek == 168

Regular == {"hourly", "daily", "weekly"}

tdelta == ("hourly" :> 1) @@ ("daily" :> HoursPerDay) @@ ("weekly" :> HoursPerWeek)

\* the plugins that use cron, besides cron itself, and the names they give
Plugins == {"p", "q"}
Names == {None, "a"}

\* callbacks: what the body does when it is called
Callback(body, arg) == [body |-> body, arg |-> arg]

Bodies == {"return", "raise", "unschedule_self", "schedule_self"}

\* the calls plugins make: p with every name and body, q with one of each
Requests(bodies) ==
  {[plugin |-> "p", name |-> n, body |-> b] : n \in Names, b \in bodies}
    \cup {[plugin |-> "q", name |-> "a", body |-> "return"]}

Without(f, k) == [x \in DOMAIN f \ {k} |-> f[x]]

\* variant: the name is not looked up before the call is made
schedule_anyName(c, plugin, when, callback, name) ==
  LET t1 == IF plugin \in DOMAIN c.tasks THEN c.tasks
            ELSE (plugin :> << >>) @@ c.tasks
      task_id == Handle("DelayedCall", Len(c.delayed) + 1)
      call == [plugin |-> plugin, name |-> name, cb |-> callback,
               due |-> now + when, state |-> "pending"]
  IN  [c |-> [c EXCEPT !.delayed = Append(c.delayed, call),
                       !.tasks = IF name # None
                                   THEN [t1 EXCEPT ![plugin] = (name :> task_id) @@ @]
                                   ELSE t1],
       ret |-> "True"]

\* Cron.schedule
schedule(c, plugin, when, callback, name) ==
  LET t1 == IF plugin \in DOMAIN c.tasks THEN c.tasks
            ELSE (plugin :> << >>) @@ c.tasks
      task_id == Handle("DelayedCall", Len(c.delayed) + 1)
      call == [plugin |-> plugin, name |-> name, cb |-> callback,
               due |-> now + when, state |-> "pending"]
  IN  IF name # None /\ name \in DOMAIN t1[plugin]
        THEN [c |-> [c EXCEPT !.tasks = t1], ret |-> "False"]
        ELSE [c |-> [c EXCEPT !.delayed = Append(c.delayed, call),
                              !.tasks = IF name # None
                                          THEN [t1 EXCEPT ![plugin] = (name :> task_id) @@ @]
                                          ELSE t1],
              ret |-> "True"]

\* Cron.scheduleAt: when is a point in time
scheduleAt(c, plugin, when, callback, name) ==
  schedule(c, plugin, when - now, callback, name)

\* Cron.unschedule: exc is the exception that leaves it, if any
unschedule(c, plugin, name) ==
  IF plugin \in DOMAIN c.tasks /\ name \in DOMAIN c.tasks[plugin]
    THEN LET h == c.tasks[plugin][name]
         IN  IF h.kind = "LoopingCall"
               THEN [c |-> c, exc |-> "AttributeError"]
             ELSE IF c.delayed[h.n].state = "called"
               THEN [c |-> c, exc |-> "AlreadyCalled"]
             ELSE IF c.delayed[h.n].state = "cancelled"
               THEN [c |-> c, exc |-> "AlreadyCancelled"]
             ELSE [c |-> [c EXCEPT !.delayed[h.n].state = "cancelled",
                                   !.tasks[plugin] = Without(@, name)],
                   exc |-> None]
    ELSE [c |-> c, exc |-> None]

RECURSIVE call(_, _, _, _)
RECURSIVE _runcb(_, _, _, _, _)
RECURSIVE scheduleEvery(_, _, _, _, _)
RECURSIVE setup_regular(_, _, _)

\* cb(): the body of callback cb of task (plugin, name) runs in state c
call(c, plugin, name, cb) ==
  CASE cb.body = "return" -> [c |-> c, raised |-> FALSE]
    [] cb.body = "raise" -> [c |-> c, raised |-> TRUE]
    [] cb.body = "unschedule_self" ->
         LET r == unschedule(c, plugin, name)
         IN  [c |-> r.c, raised |-> r.exc # None]
    [] cb.body = "schedule_self" ->
         [c |-> schedule(c, plugin, 1, Callback("return", None), name).c,
          raised |-> FALSE]
    [] cb.body = "post_event" ->
         [c |-> [c EXCEPT !.posted[cb.arg] = @ + 1], raised |-> FALSE]
    [] cb.body = "setup_regular" ->
         [c |-> setup_regular(c, cb.arg, tdelta[cb.arg]), raised |-> FALSE]

\* variant: the name is removed only after a callback that returned
runcb_noFinally(c, plugin, name, cb, unsch) ==
  LET r == call(c, plugin, name, cb)
  IN  IF unsch /\ name # None /\ ~r.raised
        THEN IF plugin \in DOMAIN r.c.tasks /\ name \in DOMAIN r.c.tasks[plugin]
               THEN [r.c EXCEPT !.tasks[plugin] = Without(@, name)]
               ELSE [r.c EXCEPT !.escaped = TRUE]
        ELSE r.c

\* run() of Cron._runcb: the callback, whose exceptions are logged, and then
\* the removal of the name, whose KeyError would leave run()
_runcb(c, plugin, name, cb, unsch) ==
  LET r == call(c, plugin, name, cb)
  IN  IF unsch /\ name # None
        THEN IF plugin \in DOMAIN r.c.tasks /\ name \in DOMAIN r.c.tasks[plugin]
               THEN [r.c EXCEPT !.tasks[plugin] = Without(@, name)]
               ELSE [r.c EXCEPT !.escaped = TRUE]
        ELSE r.c

\* Cron.scheduleEvery: the LoopingCall is built, started (which runs it at
\* once) and then registered
scheduleEvery(c, plugin, freq, callback, name) ==
  LET t1 == IF plugin \in DOMAIN c.tasks THEN c.tasks
            ELSE (plugin :> << >>) @@ c.tasks
      task_id == Handle("LoopingCall", Len(c.loops) + 1)
      loop == [plugin |-> plugin, name |-> name, cb |-> callback,
               interval |-> freq, next |-> now + freq, runs |-> 1]
      c1 == [c EXCEPT !.tasks = t1, !.loops = Append(c.loops, loop)]
      c2 == _runcb(c1, plugin, name, callback, FALSE)
  IN  IF name # None /\ name \in DOMAIN t1[plugin]
        THEN [c |-> [c EXCEPT !.tasks = t1], ret |-> "False"]
        ELSE [c |-> IF name # None
                      THEN [c2 EXCEPT !.tasks[plugin] =
                              (name :> task_id) @@ Without(@, name)]
                      ELSE c2,
              ret |-> "True"]

\* Cron.setup_regular
setup_regular(c, name, freq) ==
  LET func == Callback("post_event", name)
      c1 == scheduleEvery(c, "cron", freq, func, name).c
      c2 == call(c1, "cron", name, func).c
  IN  [c2 EXCEPT !.since[name] = IF @ = << >> THEN <<now>> ELSE @]

\* Cron.setup at hour t: the three set-up tasks
setup(t) ==
  LET c0 == [tasks |-> << >>, delayed |-> << >>, loops |-> << >>,
             posted |-> [n \in Regular |-> 0], since |-> [n \in Regular |-> << >>],
             escaped |-> FALSE]
      midnight == t - (t % HoursPerDay)
      monday == t - (t % HoursPerWeek)
      mk(c, name, due) ==
        [c EXCEPT !.delayed = Append(@, [plugin |-> "cron", name |-> name \o " set-up",
                                          cb |-> Callback("setup_regular", name),
                                          due |-> due, state |-> "pending"]),
                  !.tasks = ("cron" :> ((name \o " set-up" :>
                                Handle("DelayedCall", Len(c.delayed) + 1))
                              @@ IF "cron" \in DOMAIN c.tasks THEN c.tasks["cron"]
                                 ELSE << >>))]
  IN  mk(mk(mk(c0, "hourly", t + 1), "daily", midnight + HoursPerDay),
         "weekly", monday + HoursPerWeek)

CronState == [tasks |-> tasks, delayed |-> delayed, loops |-> loops,
              posted |-> posted, since |-> since, escaped |-> escaped]

Becomes(c) ==
  /\ tasks' = c.tasks
  /\ delayed' = c.delayed
  /\ loops' = c.loops
  /\ posted' = c.posted
  /\ since' = c.since
  /\ escaped' = c.escaped

\* the hour the bot starts in: Monday, 01:00 to 02:00
StartHour == 1

CronInit ==
  /\ now = StartHour
  /\ tasks = setup(now).tasks
  /\ delayed = setup(now).delayed
  /\ loops = setup(now).loops
  /\ posted = setup(now).posted
  /\ since = setup(now).since
  /\ escaped = FALSE
  /\ lastop = NoOp
  /\ unsched = {}
  /\ ops = 0
  /\ LexIdle /\ ConcIdle

Op(op, plugin, name, body, result, task) ==
  [op |-> op, plugin |-> plugin, name |-> name, body |-> body,
   result |-> result, task |-> task]

\* a plugin calls cron.schedule(plugin, when, callback, name)
Schedule ==
  /\ ops < MaxOps
  /\ \E q \in Requests(Bodies) :
       LET r == schedule(CronState, q.plugin, 1, Callback(q.body, None), q.name)
       IN  /\ Becomes(r.c)
           /\ lastop' = Op("schedule", q.plugin, q.name, q.body, r.ret,
                           Handle("DelayedCall", Len(delayed) + 1))
  /\ ops' = ops + 1
  /\ UNCHANGED <<now, unsched>>
  /\ UNCHANGED <<lexvars, concvars>>

\* a plugin calls cron.scheduleAt(plugin, when, callback, name)
ScheduleAt ==
  /\ ops < MaxOps
  /\ \E q \in Requests({"return"}) :
       LET r == scheduleAt(CronState, q.plugin, now + 1, Callback(q.body, None), q.name)
       IN  /\ Becomes(r.c)
           /\ lastop' = Op("scheduleAt", q.plugin, q.name, q.body, r.ret,
                           Handle("DelayedCall", Len(delayed) + 1))
  /\ ops' = ops + 1
  /\ UNCHANGED <<now, unsched>>
  /\ UNCHANGED <<lexvars, concvars>>

\* a plugin calls cron.scheduleEvery(plugin, freq, callback, name)
ScheduleEvery ==
  /\ ops < MaxOps
  /\ \E q \in Requests(Bodies) :
       LET r == scheduleEvery(CronState, q.plugin, 1, Callback(q.body, None), q.name)
       IN  /\ Becomes(r.c)
           /\ lastop' = Op("scheduleEvery", q.plugin, q.name, q.body, r.ret,
                           Handle("LoopingCall", Len(loops) + 1))
  /\ ops' = ops + 1
  /\ UNCHANGED <<now, unsched>>
  /\ UNCHANGED <<lexvars, concvars>>

\* a plugin calls cron.unschedule(plugin, name)
Unschedule ==
  /\ ops < MaxOps
  /\ \E plugin \in Plugins, name \in Names \ {None} :
       LET r == unschedule(CronState, plugin, name)
           known == plugin \in DOMAIN tasks /\ name \in DOMAIN tasks[plugin]
       IN  /\ Becomes(r.c)
           /\ lastop' = Op("unschedule", plugin, name, None, r.exc,
                           IF known THEN tasks[plugin][name] ELSE NoTask)
           /\ unsched' = IF known THEN unsched \cup {tasks[plugin][name]} ELSE unsched
  /\ ops' = ops + 1
  /\ UNCHANGED now
  /\ UNCHANGED <<lexvars, concvars>>

\* the reactor calls a due DelayedCall: called is set, then run() runs
RunDelayed ==
  /\ \E n \in 1..Len(delayed) :
       LET d == delayed[n]
           c1 == [CronState EXCEPT !.delayed[n].state = "called"]
       IN  /\ d.state = "pending"
           /\ d.due <= now
           /\ Becomes(_runcb(c1, d.plugin, d.name, d.cb, TRUE))
           /\ lastop' = Op("run", d.plugin, d.name, d.cb.body, None,
                           Handle("DelayedCall", n))
  /\ UNCHANGED <<now, unsched, ops>>
  /\ UNCHANGED <<lexvars, concvars>>

\* the reactor calls a due LoopingCall: run() runs and the call is
\* rescheduled one interval later
RunLoop ==
  /\ \E n \in 1..Len(loops) :
       LET l == loops[n]
           c1 == [CronState EXCEPT !.loops[n].next = @ + l.interval,
                                   !.loops[n].runs = @ + 1]
       IN  /\ l.next <= now
           /\ Becomes(_runcb(c1, l.plugin, l.name, l.cb, FALSE))
           /\ lastop' = Op("run", l.plugin, l.name, l.cb.body, None,
                           Handle("LoopingCall", n))
  /\ UNCHANGED <<now, unsched, ops>>
  /\ UNCHANGED <<lexvars, concvars>>

\* nothing is due
Quiet ==
  /\ \A n \in 1..Len(delayed) : delayed[n].state = "pending" => delayed[n].due > now
  /\ \A n \in 1..Len(loops) : loops[n].next > now

\* an hour passes once the reactor has run everything that was due
Tick ==
  /\ Quiet
  /\ now < StartHour + MaxTime
  /\ now' = now + 1
  /\ lastop' = Op("tick", None, None, None, None, NoTask)
  /\ UNCHANGED <<tasks, delayed, loops, posted, since, escaped, unsched, ops>>
  /\ UNCHANGED <<lexvars, concvars>>

CronNext ==
  \/ Schedule
  \/ ScheduleAt
  \/ ScheduleEvery
  \/ Unschedule
  \/ RunDelayed
  \/ RunLoop
  \/ Tick

SpecCron == CronInit /\ [][CronNext]_vars

TypeOK ==
  /\ input \in Lines
  /\ calls \in 0..MaxCalls
  /\ outcome \in {"none", "token", "StopIteration", "ValueError"}

\* ================================================================== claims
Terminal == {NAME, SYMBOL, TSTRING, L_PAREN, R_PAREN, L_BRACKET, R_BRACKET,
             NUMBER, REAL, IMAGINARY}

Internal == {unmatched_string, unfinished_symbol, decimal_point}

Front(q) == SubSeq(q, 1, Len(q) - 1)

HasGen == input \in DOMAIN program_dict

\* the generator has returned (not raised): the whole line was scanned
Completed == HasGen /\ program_dict[input].pc = "closed" /\ ~last.raised

\* C1: every token yielded to the consumer or stored in the lexeme cache has
\* one of the ten terminal token types; no internal marker, None or UNKNOWN.
C1_TerminalTypes ==
  /\ \A k \in 1..Len(received) : received[k].token_type \in Terminal
  /\ \A lx \in DOMAIN lexeme_dict : lexeme_dict[lx].token_type \in Terminal

\* C1 witness: a token was yielded whose classification passed through a
\* node that carries an internal marker.
C1_Witness ==
  /\ outcome = "token"
  /\ ~last.raised /\ ~last.hit
  /\ \E n \in 1..(Len(last.lex) - 1) : matches[SubSeq(last.lex, 1, n)]._tok \in Internal

\* C2: classifying a non-empty lexeme fails exactly when the node reached
\* after its last character carries an internal marker (so for an unterminated
\* string, a lone apostrophe and digits followed by a point); then nothing is
\* stored for the lexeme, and otherwise the token is returned.
C2_FailsIffInternal ==
  (last.lex # << >> /\ ~last.hit) =>
     /\ last.raised <=> matches[last.lex]._tok \in Internal
     /\ last.raised => (last.lex \notin DOMAIN lexeme_dict /\ outcome # "token")
     /\ ~last.raised =>
          (outcome = "token" =>
             /\ received[Len(received)] = Token(matches[last.lex]._tok, last.word)
             /\ lexeme_dict[last.lex] = received[Len(received)])
     /\ (last.lex[1] = DQ /\ \A n \in 2..Len(last.lex) : last.lex[n] \notin {DQ, BS})
          => last.raised
     /\ last.lex = <<AP>> => last.raised
     /\ (Len(last.lex) >= 2 /\ last.lex[Len(last.lex)] = "."
         /\ \A n \in 1..(Len(last.lex) - 1) : last.lex[n] \in Digits) => last.raised

\* C2 witness: a lexeme ending in a decimal point has just been rejected.
C2_Witness ==
  /\ last.raised /\ outcome = "ValueError"
  /\ last.lex = <<"1", ".">>

\* C3 (as claimed): tokenizing a line is all-or-nothing; when a lexeme of the
\* line is unclassifiable and the ValueError reaches the consumer, the
\* consumer has received no token of that line.
C3_AllOrNothing ==
  outcome = "ValueError" => received = << >>

\* ---- reference splitter flags: a backslash inside a string escapes exactly
\* the next character; a quote toggles the in-string flag unless escaped
RECURSIVE RefState(_, _)
RefState(s, n) ==
  IF n = 0 THEN [string |-> FALSE, escape |-> FALSE]
  ELSE LET prev == RefState(s, n - 1)
           c == s[n]
       IN  IF prev.escape THEN [string |-> prev.string, escape |-> FALSE]
           ELSE IF c = DQ THEN [string |-> ~prev.string, escape |-> FALSE]
           ELSE IF prev.string /\ c = BS THEN [string |-> TRUE, escape |-> TRUE]
           ELSE [string |-> prev.string, escape |-> FALSE]

\* C4 (as claimed): whenever the generator is suspended or finished, its
\* in-string and escape-pending flags are those of the reference: the escape
\* lasts for exactly one character, so a quote after an escaped backslash or
\* after an escaped quote closes the string.
C4_EscapeOneChar ==
  (HasGen /\ program_dict[input].pc # "start") =>
     LET g == program_dict[input]
         ref == RefState(input, g.i - 1)
     IN  g.string = ref.string /\ g.escape = ref.escape

RECURSIVE Concat(_)
Concat(ss) == IF ss = << >> THEN << >> ELSE Head(ss) \o Concat(Tail(ss))

\* the line without the whitespace that stands outside a string
RECURSIVE RefStrip(_, _)
RefStrip(s, k) ==
  IF k > Len(s) THEN << >>
  ELSE (IF s[k] \in whitespace /\ ~RefState(s, k - 1).string THEN << >> ELSE <<s[k]>>)
       \o RefStrip(s, k + 1)

IsPrefix(a, b) == Len(a) <= Len(b) /\ SubSeq(b, 1, Len(a)) = a

\* C5 (as claimed): the lexemes are emitted in order and are never empty, and
\* when the scan of the line has finished their concatenation is the line
\* without exactly the whitespace outside strings.
C5_LosesOnlyWhitespace ==
  /\ \A k \in 1..Len(emitted) : emitted[k] # << >>
  /\ IsPrefix(Concat(emitted), RefStrip(input, 1))
  /\ Completed => Concat(emitted) = RefStrip(input, 1)

\* the delimiters of the line that stand outside a string, in order
RECURSIVE RefDelims(_, _)
RefDelims(s, k) ==
  IF k > Len(s) THEN << >>
  ELSE (IF s[k] \in SYMBOLS /\ ~RefState(s, k - 1).string
          THEN <<Token(SYMBOL_LUT[s[k]], <<s[k]>>)>> ELSE << >>)
       \o RefDelims(s, k + 1)

IsBracket(t) == t.token_type \in {L_PAREN, R_PAREN, L_BRACKET, R_BRACKET}

\* C6 (as claimed): every yielded bracket token has a one-character text, and
\* when the scan of the line has finished the bracket tokens yielded are, in
\* order, exactly the delimiters that stand outside a string, each with its
\* matching type and its own character as text.
C6_DelimitersOwnToken ==
  /\ \A k \in 1..Len(received) : IsBracket(received[k]) => Len(received[k].lexeme) = 1
  /\ Completed => SelectSeq(received, IsBracket) = RefDelims(input, 1)

\* ---- reference grammar of the numeric lexemes
NumAlphabet == Digits \cup {".", "i"} \cup {"n", "x", "t", "e", "f", "o"}

IsDigits(w) == w # << >> /\ \A k \in 1..Len(w) : w[k] \in Digits

IsReal(w) ==
  \E k \in 1..Len(w) : /\ w[k] = "."
                       /\ IsDigits(SubSeq(w, 1, k - 1))
                       /\ IsDigits(SubSeq(w, k + 1, Len(w)))

IsImaginary(w) ==
  /\ w # << >>
  /\ w[Len(w)] = "i"
  /\ (IsDigits(Front(w)) \/ IsReal(Front(w)))

IsDanglingPoint(w) == w # << >> /\ w[Len(w)] = "." /\ IsDigits(Front(w))

RefNumeric(w) ==
  IF IsDigits(w) THEN NUMBER
  ELSE IF IsReal(w) THEN REAL
  ELSE IF IsImaginary(w) THEN IMAGINARY
  ELSE NAME

\* C7: for every lexeme made of digits, '.', 'i' and other letters the
\* classification is that of the reference grammar (digits: NUMBER; digits
\* '.' digits: REAL; either followed by one 'i': IMAGINARY; digits '.': an
\* error; anything else: NAME) and the token's text is the lexeme.
C7_NumericGrammar ==
  (last.lex # << >> /\ \A k \in 1..Len(last.lex) : last.lex[k] \in NumAlphabet) =>
     IF IsDanglingPoint(last.lex)
       THEN last.raised
       ELSE /\ ~last.raised
            /\ last._tok = RefNumeric(last.lex)
            /\ last.word = last.lex
            /\ lexeme_dict[last.lex] = Token(RefNumeric(last.lex), last.lex)

\* C7 witness: the lexeme 3.14i has been classified IMAGINARY.
C7_Witness ==
  /\ last.lex = <<"3", ".", "1", "4", "i">>
  /\ last._tok = IMAGINARY
  /\ outcome = "token"

\* C8 (as claimed): a child of a NUMBER node on a character that is not a
\* digit, '.' or 'i' is marked NAME, and every child of an IMAGINARY node is
\* marked NAME, also for the characters ' and ".
C8_NumberThenOtherIsName ==
  \A q \in DOMAIN matches :
     Len(q) >= 1 =>
        LET ptok == matches[Front(q)]._tok
            k == q[Len(q)]
        IN  /\ (ptok = NUMBER /\ k \notin Digits \cup {".", "i"}) => matches[q]._tok = NAME
            /\ ptok = IMAGINARY => matches[q]._tok = NAME

\* ---- reference expansion of the content of a string literal
Escapes == (DQ :> DQ) @@ ("n" :> "\n") @@ ("t" :> "\t") @@ (BS :> BS)

RECURSIVE WellFormed(_)
WellFormed(w) ==
  IF w = << >> THEN TRUE
  ELSE IF Head(w) = DQ THEN FALSE
  ELSE IF Head(w) = BS
    THEN Len(w) >= 2 /\ w[2] \in DOMAIN Escapes /\ WellFormed(SubSeq(w, 3, Len(w)))
  ELSE WellFormed(Tail(w))

RECURSIVE Expand(_)
Expand(w) ==
  IF w = << >> THEN << >>
  ELSE IF Head(w) = BS THEN <<Escapes[w[2]]>> \o Expand(SubSeq(w, 3, Len(w)))
  ELSE <<Head(w)>> \o Expand(Tail(w))

IsStringLiteral(w) ==
  /\ Len(w) >= 2
  /\ w[1] = DQ /\ w[Len(w)] = DQ
  /\ WellFormed(SubSeq(w, 2, Len(w) - 1))

\* C9: a lexeme " content " whose content is made of ordinary characters and
\* the escapes \" \n \t \\ is a STRING token whose text is the content with
\* each escape expanded and the surrounding quotes dropped; after the opening
\* quote and any such content the automaton is in the unmatched-string state.
C9_StringEscapes ==
  /\ IsStringLiteral(last.lex) =>
        /\ ~last.raised
        /\ last._tok = TSTRING
        /\ last.word = Expand(SubSeq(last.lex, 2, Len(last.lex) - 1))
        /\ lexeme_dict[last.lex] = Token(TSTRING, last.word)
  /\ \A q \in DOMAIN matches :
        (Len(q) >= 1 /\ q[1] = DQ /\ WellFormed(Tail(q))) =>
           matches[q]._tok = unmatched_string

\* C9 witness: a string literal with all four escapes has been classified.
C9_Witness ==
  /\ last.lex = <<DQ, "a", BS, "t", BS, "n", BS, BS, BS, DQ, "b", DQ>>
  /\ last.word = <<"a", "\t", "\n", BS, DQ, "b">>
  /\ outcome = "token"

\* C10 (as claimed): every lexeme of length two or more that starts with an
\* apostrophe is classified as a SYMBOL token and is not rejected.
C10_ApostropheThenAny ==
  (Len(last.lex) >= 2 /\ last.lex[1] = AP) =>
     (~last.raised /\ last._tok = SYMBOL)

\* C11: classifying a lexeme text that was classified before returns a Token
\* identical to the first result, creates no automaton node and changes no
\* entry of the lexeme cache.
C11_Idempotent ==
  [][ (Len(emitted') = Len(emitted) + 1) =>
        \A j \in 1..Len(emitted) :
           (emitted[j] = emitted'[Len(emitted')] /\ j <= Len(received)) =>
              /\ received' = Append(received, received[j])
              /\ matches' = matches
              /\ lexeme_dict' = lexeme_dict ]_vars

\* C11 witness: a lexeme of the line has been classified a second time and
\* its token came from the cache.
C11_Witness ==
  /\ last.hit /\ outcome = "token"
  /\ last.word # last.lex
  /\ Len(received) >= 2
  /\ \E j \in 1..(Len(emitted) - 1) : emitted[j] = emitted[Len(emitted)]

\* ---- the outcome of tokenizing line s from its start on a fresh automaton
RECURSIVE RunAll(_, _, _, _, _)
RunAll(s, g, m, c, toks) ==
  LET g2 == Resume(s, g)
  IN  IF g2.pc = "closed" THEN [toks |-> toks, err |-> FALSE]
      ELSE LET r == LexemeLookup(m, c, YieldLexeme(s, g2))
           IN  IF r.raised THEN [toks |-> toks, err |-> TRUE]
               ELSE RunAll(s, g2, r.matches, r.cache, Append(toks, r.tok))

FreshRun(s) == RunAll(s, NewGen, build_lexchar_dict, << >>, << >>)

\* C12 (as claimed): the sequence returned by any call of lex(program_dict, s),
\* also by a second call made after the first sequence was partly or fully
\* consumed, yields all tokens of s from the first one.
C12_FreshCallRescans ==
  got.ended # "no" =>
     /\ got.toks = FreshRun(input).toks
     /\ (got.ended = "ValueError") = FreshRun(input).err

IsEscapeNode(p) == Len(p) >= 2 /\ p[Len(p)] = BS /\ p[1] = DQ

\* C16: the automaton is append-only with create-on-miss transitions.  In
\* every step no existing node is removed or changed in marker or display
\* character (so no existing transition is replaced); the nodes a
\* classification adds are the missing nodes on the path of its lexeme (and
\* the children a new escape node is born with), every node on that path
\* exists afterwards, and at most one node is added under a node that
\* existed before.
C16_AppendOnly ==
  [][ LET new == DOMAIN matches' \ DOMAIN matches
          lx == last'.lex
      IN  /\ \A p \in DOMAIN matches :
                p \in DOMAIN matches' /\ matches'[p] = matches[p]
          /\ new # {} =>
                /\ \A n \in 0..Len(lx) : SubSeq(lx, 1, n) \in DOMAIN matches'
                /\ \A q \in new :
                      \/ Len(q) <= Len(lx) /\ q = SubSeq(lx, 1, Len(q))
                      \/ Front(q) \in new /\ IsEscapeNode(Front(q))
                             /\ q[Len(q)] \in {DQ, "n", "t", BS}
                /\ Cardinality({q \in new : Front(q) \in DOMAIN matches}) = 1 ]_vars

\* C16 witness: after an earlier lexeme created nodes, a later classification
\* that starts on the same path failed.
C16_Witness ==
  /\ Len(emitted) >= 2
  /\ last.raised /\ ~last.hit
  /\ emitted[1][1] = last.lex[1]
  /\ Len(emitted[1]) >= 2

\* C18 (as claimed): whitespace and the delimiters occur only in the text of
\* STRING tokens (and as the text of the bracket tokens themselves); in
\* particular no NAME token has a whitespace or delimiter character in its text.
C18_NameHasNoSeparators ==
  \A k \in 1..Len(received) :
     (received[k].token_type # TSTRING /\ ~IsBracket(received[k])) =>
        \A j \in 1..Len(received[k].lexeme) :
           received[k].lexeme[j] \notin (whitespace \cup SYMBOLS)

\* the (marker, display character) a fresh automaton gives the node at path p
FreshNode(p) == WalkFrom(build_lexchar_dict, << >>, p, << >>).matches[p]

\* C19: whatever was classified before on the same automaton and cache
\* (failed lexemes included), the outcome of a classification is the outcome
\* on a freshly built automaton, and every node's marker and display
\* character are those a fresh automaton gives its path.
C19_HistoryIndependent ==
  /\ last.lex # << >> =>
        LET f == LexemeLookup(build_lexchar_dict, << >>, last.lex)
        IN  /\ last.raised = f.raised
            /\ ~f.raised => (last._tok = f.tok.token_type /\ last.word = f.tok.lexeme)
            /\ (~f.raised /\ outcome = "token") => received[Len(received)] = f.tok
  /\ \A p \in DOMAIN matches : matches[p] = FreshNode(p)

\* C19 witness: a lexeme was classified successfully on the second line after
\* a lexeme on the same path had failed on the first line.
C19_Witness ==
  /\ pending = << >>
  /\ outcome = "token" /\ ~last.raised
  /\ \E j \in 1..(Len(emitted) - 1) :
        /\ emitted[j] \notin DOMAIN lexeme_dict
        /\ emitted[j][1] = last.lex[1]
\* the part of its lexeme a thread has consumed
Consumed(t) == SubSeq(thr[t].lex, 1, thr[t].i - 1)

\* the nodes a finished __missing__ call has stored in its parent
Stored == {id \in DOMAIN made : \A t \in Threads : thr[t].d # id}

\* C17: when two calls on one automaton extend the same path for the first
\* time, each (parent, character) gets exactly one child ever created, every
\* created and stored child stays the parent's entry (none is replaced and
\* orphaned), and two calls that have consumed the same characters stand on
\* the same node.
C17_Serialized ==
  /\ \A a, b \in DOMAIN made : made[a] = made[b] => a = b
  /\ \A id \in Stored : kids[made[id]] = id
  /\ \A t, u \in Threads :
       (thr[t].pc # "idle" /\ thr[u].pc # "idle" /\ Consumed(t) = Consumed(u))
         => thr[t].match = thr[u].match

\* the call that a schedule step reports in lastop has been started
Started(h) ==
  IF h.kind = "DelayedCall"
    THEN /\ Len(delayed) = h.n - 1 /\ Len(delayed') >= h.n
         /\ delayed'[h.n].state = "pending"
         /\ loops' = loops
    ELSE /\ Len(loops) = h.n - 1 /\ Len(loops') >= h.n
         /\ loops'[h.n].runs = 1

Registered(t, p, n) == n # None /\ p \in DOMAIN t /\ n \in DOMAIN t[p]

C14_UnscheduleRemoves ==
  [][ /\ lastop'.op = "unschedule" =>
           IF lastop'.task # NoTask
             THEN /\ lastop'.result = None
                  /\ ~Registered(tasks', lastop'.plugin, lastop'.name)
             ELSE tasks' = tasks /\ delayed' = delayed /\ loops' = loops
      /\ lastop'.op = "run" => lastop'.task \notin unsched
    ]_vars

\* C15: the run of a named one-shot task has called the callback and leaves
\* the name out of tasks[plugin], whatever the callback did, and no
\* exception leaves a runner; the run of a recurring or unnamed task removes
\* nothing from tasks, and leaves tasks as it is when the callback only
\* returns or raises.
C15_RunnerRemovesName ==
  [][ lastop'.op = "run" =>
        LET h == lastop'.task
            p == lastop'.plugin
            n == lastop'.name
        IN  /\ ~escaped'
            /\ IF h.kind = "DelayedCall" /\ n # None
                 THEN /\ delayed'[h.n].state = "called"
                      /\ ~Registered(tasks', p, n)
                 ELSE /\ \A q \in DOMAIN tasks :
                           /\ q \in DOMAIN tasks'
                           /\ \A m \in DOMAIN tasks[q] :
                                m \in DOMAIN tasks'[q] /\ tasks'[q][m] = tasks[q][m]
                      /\ lastop'.body \in {"return", "raise"} => tasks' = tasks
    ]_vars

\* C15 witness: a named one-shot task whose callback unschedules its own
\* name has run.
C15_Witness ==
  /\ lastop.op = "run"
  /\ lastop.task.kind = "DelayedCall"
  /\ lastop.name = "a"
  /\ lastop.body = "unschedule_self"
  /\ delayed[lastop.task.n].state = "called"

\* C20: once setup_regular(name, tdelta) has run and nothing is due, the
\* event cron.<name> has been posted once at that hour and once per tdelta
\* elapsed since, and the recurring task is registered under
\* tasks[cron][name].
C20_PostedOncePerInterval ==
  \A name \in Regular :
    (Quiet /\ since[name] # << >>) =>
      /\ posted[name] = 1 + ((now - since[name][1]) \div tdelta[name])
      /\ Registered(tasks, "cron", name)
      /\ tasks["cron"][name].kind = "LoopingCall"

====
